---------------------------- MODULE Spec2Model ----------------------------
(***************************************************************************)
(* The chainable data handler of AirBnBDataHandler.js (createDataHandler)  *)
(* as a state machine: the handler's closure state (listingData,           *)
(* currentData), one action per handler method, and the value each method  *)
(* returns.                                                                *)
(***************************************************************************)
EXTENDS Integers, Sequences, FiniteSets, TLC

(***************************************************************************)
(* Bounds of the model.                                                    *)
(***************************************************************************)
MaxLen == 3
MaxPrice == 2
MaxRooms == 1
MaxScore == 1
MaxRows == 2
MaxText == 5

VARIABLES
    listingData,   \* the array createDataHandler closes over (the original)
    currentData,   \* let currentData: the working copy
    lastCall,      \* the last handler method called, with its arguments
    returned,      \* what that call returned: [type, value]; for exportResults
                   \* the text it handed to writeFile
    loaded,        \* history: the array as loadCSV produced it
    passing,       \* history: the records of loaded that satisfy every
                   \* range applied since construction or the last reset
    csv,           \* the rows of the CSV file that loadCSV has still to read
    writing,       \* the texts handed to writeFile by exportResults calls of
                   \* the session that have not settled yet, oldest first
    cli            \* the command line session of cli.js: where it waits (pc),
                   \* what it printed since the last answer (out), and the
                   \* answer to the last "Min ..." question (min)

vars == <<listingData, currentData, lastCall, returned, loaded, passing, csv,
         writing, cli>>

(***************************************************************************)
(* Listings as loadCSV produces them: price, bedrooms and                  *)
(* review_scores_rating are numbers, every other column is a string.       *)
(***************************************************************************)
HostIds == {"", "A", "B", "2", "10", "constructor"}
HostNames == {"Ann", "Bob"}

Listings ==
    [price : 0..MaxPrice, bedrooms : 0..MaxRooms,
     review_scores_rating : 0..MaxScore, host_id : {"A"}, host_name : {"Ann"}]

HostListings ==
    [price : {1}, bedrooms : {1}, review_scores_rating : {1},
     host_id : HostIds, host_name : HostNames]

SeqsUpTo(S, n) == UNION {[1..k -> S] : k \in 0..n}

Range(s) == {s[i] : i \in 1..Len(s)}

(***************************************************************************)
(* Array.prototype.filter: visits the elements in order and appends the    *)
(* ones the callback accepts to a new array.  keep is the callback, as a   *)
(* function of the element.                                                *)
(***************************************************************************)
RECURSIVE Filter(_, _)
Filter(data, keep) ==
    IF data = <<>> THEN <<>>
    ELSE IF keep[Head(data)] THEN <<Head(data)>> \o Filter(Tail(data), keep)
         ELSE Filter(Tail(data), keep)

\* PriceInRange with the upper bound taken as exclusive
PriceInRange_exclusiveMax(item, minPrice, maxPrice) ==
    item.price >= minPrice /\ item.price < maxPrice

PriceInRange(item, minPrice, maxPrice) ==
    item.price >= minPrice /\ item.price <= maxPrice

\* BedroomsInRange putting the two bounds in order before it compares
BedroomsInRange_ordered(item, minRooms, maxRooms) ==
    IF minRooms <= maxRooms
    THEN item.bedrooms >= minRooms /\ item.bedrooms <= maxRooms
    ELSE item.bedrooms >= maxRooms /\ item.bedrooms <= minRooms

BedroomsInRange(item, minRooms, maxRooms) ==
    item.bedrooms >= minRooms /\ item.bedrooms <= maxRooms

ReviewScoreInRange(item, minScore, maxScore) ==
    item.review_scores_rating >= minScore /\ item.review_scores_rating <= maxScore

\* ByPrice with Array.prototype.find in place of filter: the first match only
ByPrice_find(data, minPrice, maxPrice) ==
    LET found == Filter(data, [item \in Range(data) |-> PriceInRange(item, minPrice, maxPrice)])
    IN  IF found = <<>> THEN <<>> ELSE <<Head(found)>>

ByPrice(data, minPrice, maxPrice) ==
    Filter(data, [item \in Range(data) |-> PriceInRange(item, minPrice, maxPrice)])

\* ByBedrooms with the matches returned last to first
ByBedrooms_reversed(data, minRooms, maxRooms) ==
    LET found == Filter(data, [item \in Range(data) |-> BedroomsInRange(item, minRooms, maxRooms)])
    IN  [i \in 1..Len(found) |-> found[Len(found) + 1 - i]]

\* ByBedrooms filtering the original array instead of the working copy
ByBedrooms_ofOriginal(data, minRooms, maxRooms) ==
    Filter(listingData, [item \in Range(listingData) |-> BedroomsInRange(item, minRooms, maxRooms)])

ByBedrooms(data, minRooms, maxRooms) ==
    Filter(data, [item \in Range(data) |-> BedroomsInRange(item, minRooms, maxRooms)])

\* ByReviewScore filtering the original array, so that records an earlier
\* filter removed come back
ByReviewScore_ofOriginal(data, minScore, maxScore) ==
    Filter(listingData, [item \in Range(listingData) |-> ReviewScoreInRange(item, minScore, maxScore)])

ByReviewScore(data, minScore, maxScore) ==
    Filter(data, [item \in Range(data) |-> ReviewScoreInRange(item, minScore, maxScore)])

Call(op, min, max) == [op |-> op, min |-> min, max |-> max]

\* a call of a method that takes no arguments; again tells that the call
\* before it was a call of the same method
CallAgain(op) == [op |-> op, min |-> 0, max |-> 0, again |-> lastCall.op = op]

\* a JavaScript value with its type; only null and undefined are falsy here
Value(type, value) == [type |-> type, value |-> value]

This == Value("this", <<>>)

Null == Value("null", <<>>)

Undefined == Value("undefined", <<>>)

\* what reading a property of undefined throws; a step that may throw
\* yields either this or Value("object", the object it worked on)
TypeError == Value("TypeError", <<>>)

Truthy(v) == v.type \notin {"null", "undefined"}

\* range membership as the claims state it: min <= v <= max
Within(v, min, max) == min <= v /\ v <= max

(***************************************************************************)
(* The handler's methods.                                                  *)
(***************************************************************************)
\* the impure filter the source shows as its counter example: it raises
\* every price in place and reassigns listingData
impureFilterInPlace(minPrice, maxPrice) ==
    LET raised(data) == [i \in 1..Len(data) |-> [data[i] EXCEPT !.price = @ + 100]]
    IN  /\ listingData' = ByPrice(raised(listingData), minPrice, maxPrice)
        /\ currentData' = ByPrice(raised(currentData), minPrice, maxPrice)
        /\ lastCall' = Call("filterByPrice", minPrice, maxPrice)
        /\ returned' = This
        /\ passing' = {r \in passing : Within(r.price, minPrice, maxPrice)}
        /\ UNCHANGED loaded

filterByPrice(minPrice, maxPrice) ==
    /\ currentData' = ByPrice(currentData, minPrice, maxPrice)
    /\ lastCall' = Call("filterByPrice", minPrice, maxPrice)
    /\ returned' = This
    /\ passing' = {r \in passing : Within(r.price, minPrice, maxPrice)}
    /\ UNCHANGED <<listingData, loaded>>

\* filterByBedrooms handing back a new handler made of the filtered
\* records instead of the handler it was called on
filterByBedrooms_newHandler(minRooms, maxRooms) ==
    /\ currentData' = ByBedrooms(currentData, minRooms, maxRooms)
    /\ lastCall' = Call("filterByBedrooms", minRooms, maxRooms)
    /\ returned' = Value("handler", currentData')
    /\ passing' = {r \in passing : Within(r.bedrooms, minRooms, maxRooms)}
    /\ UNCHANGED <<listingData, loaded>>

filterByBedrooms(minRooms, maxRooms) ==
    /\ currentData' = ByBedrooms(currentData, minRooms, maxRooms)
    /\ lastCall' = Call("filterByBedrooms", minRooms, maxRooms)
    /\ returned' = This
    /\ passing' = {r \in passing : Within(r.bedrooms, minRooms, maxRooms)}
    /\ UNCHANGED <<listingData, loaded>>

filterByReviewScore(minScore, maxScore) ==
    /\ currentData' = ByReviewScore(currentData, minScore, maxScore)
    /\ lastCall' = Call("filterByReviewScore", minScore, maxScore)
    /\ returned' = This
    /\ passing' = {r \in passing : Within(r.review_scores_rating, minScore, maxScore)}
    /\ UNCHANGED <<listingData, loaded>>

\* reset that leaves the working copy as it is
reset_keepsCurrent ==
    /\ currentData' = currentData
    /\ lastCall' = Call("reset", 0, 0)
    /\ returned' = This
    /\ passing' = Range(loaded)
    /\ UNCHANGED <<listingData, loaded>>

reset ==
    /\ currentData' = listingData
    /\ lastCall' = Call("reset", 0, 0)
    /\ returned' = This
    /\ passing' = Range(loaded)
    /\ UNCHANGED <<listingData, loaded>>

(***************************************************************************)
(* Numbers that are results of a division, kept exact as a reduced         *)
(* fraction num/den.  den = 0 stands for the non-finite results of         *)
(* dividing by zero: 0/0 (NaN) and n/0 (Infinity).                         *)
(***************************************************************************)
RECURSIVE GCD(_, _)
GCD(a, b) == IF b = 0 THEN a ELSE GCD(b, a % b)

Num(n) == [num |-> n, den |-> 1]

Div(a, b) ==
    IF b = 0 THEN [num |-> IF a = 0 THEN 0 ELSE 1, den |-> 0]
    ELSE LET g == GCD(a, b) IN [num |-> a \div g, den |-> b \div g]

\* x || 0 on a number: 0 for the falsy number 0, x otherwise
OrZero(x) == IF x = 0 THEN 0 ELSE x

(***************************************************************************)
(* computeStats                                                            *)
(***************************************************************************)
RECURSIVE TotalPrice(_, _)
TotalPrice(sum, data) ==
    IF data = <<>> THEN sum
    ELSE TotalPrice(sum + OrZero(Head(data).price), Tail(data))

\* ByRoomsStep counting a listing only when it opens a new group
ByRoomsStep_countOnCreate(acc, item) ==
    LET key == OrZero(item.bedrooms)
    IN  IF key \notin DOMAIN acc
        THEN Value("object", acc @@ (key :> [total |-> item.price, count |-> 1]))
        ELSE Value("object", [acc EXCEPT ![key] = [total |-> @.total + item.price,
                                                   count |-> @.count]])

\* one step of the reduce that groups by bedrooms; acc maps the keys the
\* object owns to {total, count}.  acc[key].total += ... throws when
\* acc[key] is undefined
ByRoomsStep(acc, item) ==
    LET key  == OrZero(item.bedrooms)
        acc1 == IF key \notin DOMAIN acc
                THEN acc @@ (key :> [total |-> 0, count |-> 0])
                ELSE acc
    IN  IF key \notin DOMAIN acc1
        THEN TypeError
        ELSE Value("object", [acc1 EXCEPT ![key] = [total |-> @.total + item.price,
                                                    count |-> @.count + 1]])

\* the reduce: a step that throws ends it
RECURSIVE ByRooms(_, _)
ByRooms(acc, data) ==
    IF data = <<>> THEN Value("object", acc)
    ELSE LET step == ByRoomsStep(acc, Head(data))
         IN  IF step.type = "TypeError" THEN step ELSE ByRooms(step.value, Tail(data))

\* Stats without the early return for an empty array
Stats_noEmptyGuard(data) ==
    LET totalListings == Len(data)
        totalPrice    == TotalPrice(0, data)
        reduced       == ByRooms(<<>>, data)
        byRooms       == reduced.value
    IN  IF reduced.type = "TypeError" THEN TypeError
        ELSE Value("stats",
                 [totalListings |-> totalListings,
                  avgPrice |-> Div(totalPrice, totalListings),
                  avgPriceByBedrooms |->
                      [rooms \in DOMAIN byRooms |->
                          Div(byRooms[rooms].total, byRooms[rooms].count)]])

Stats(data) ==
    LET totalListings == Len(data)
        totalPrice    == TotalPrice(0, data)
        reduced       == ByRooms(<<>>, data)
        byRooms       == reduced.value
    IN  IF totalListings = 0
        THEN Value("stats", [totalListings |-> 0, avgPrice |-> Num(0),
                             avgPriceByBedrooms |-> <<>>])
        ELSE IF reduced.type = "TypeError" THEN TypeError
        ELSE Value("stats",
                 [totalListings |-> totalListings,
                  avgPrice |-> Div(totalPrice, totalListings),
                  avgPriceByBedrooms |->
                      [rooms \in DOMAIN byRooms |->
                          Div(byRooms[rooms].total, byRooms[rooms].count)]])

\* computeStats taking the records off the working copy as it adds them up
computeStats_consumes ==
    /\ returned' = Stats(currentData)
    /\ currentData' = <<>>
    /\ lastCall' = CallAgain("computeStats")
    /\ UNCHANGED <<listingData, loaded, passing>>

computeStats ==
    /\ returned' = Stats(currentData)
    /\ lastCall' = CallAgain("computeStats")
    /\ UNCHANGED <<listingData, currentData, loaded, passing>>

(***************************************************************************)
(* computeHostRanking.  The tally is a plain object ({}): order lists the  *)
(* keys it owns in the order they were created, entry maps each to its     *)
(* value.  Reading a key the object does not own falls through to          *)
(* Object.prototype.                                                       *)
(***************************************************************************)
ObjectPrototypeKeys ==
    {"constructor", "__proto__", "hasOwnProperty", "isPrototypeOf",
     "propertyIsEnumerable", "toLocaleString", "toString", "valueOf"}

\* the integer a property key denotes when it is the canonical decimal text
\* of an array index, -1 when it is any other string
ArrayIndex(key) ==
    CASE key = "2"  -> 2
      [] key = "10" -> 10
      [] OTHER      -> -1

IsArrayIndex(key) == ArrayIndex(key) >= 0

EmptyObject == [order |-> <<>>, entry |-> <<>>]

\* the test that never finds a key missing, so that no entry is made
Missing_never(obj, key) == FALSE

\* !obj[key]: no own property and nothing inherited under that name
Missing(obj, key) == key \notin DOMAIN obj.entry /\ key \notin ObjectPrototypeKeys

\* TallyStep taking the display name from every record of the host, so the
\* last one stays
TallyStep_lastName(acc, item) ==
    IF item.host_id = "" THEN Value("object", acc)
    ELSE LET key  == item.host_id
             acc1 == IF Missing(acc, key)
                     THEN [order |-> Append(acc.order, key),
                           entry |-> acc.entry @@
                               (key :> [host_id |-> item.host_id,
                                        host_name |-> item.host_name,
                                        listingsCount |-> 0])]
                     ELSE acc
         IN  IF key \in DOMAIN acc1.entry
             THEN Value("object",
                      [acc1 EXCEPT !.entry[key].listingsCount = @ + 1,
                                   !.entry[key].host_name = item.host_name])
             ELSE IF key \in ObjectPrototypeKeys
             THEN Value("object", acc1)
             ELSE TypeError

\* host_name: item.host_name || "" leaves a string as it is ("" stays "").
\* acc[item.host_id].listingsCount += 1 works on the own entry, lands on
\* the inherited object when there is no own entry, and throws when
\* acc[item.host_id] is undefined
TallyStep(acc, item) ==
    IF item.host_id = "" THEN Value("object", acc)
    ELSE LET key  == item.host_id
             acc1 == IF Missing(acc, key)
                     THEN [order |-> Append(acc.order, key),
                           entry |-> acc.entry @@
                               (key :> [host_id |-> item.host_id,
                                        host_name |-> item.host_name,
                                        listingsCount |-> 0])]
                     ELSE acc
         IN  IF key \in DOMAIN acc1.entry
             THEN Value("object", [acc1 EXCEPT !.entry[key].listingsCount = @ + 1])
             ELSE IF key \in ObjectPrototypeKeys
             THEN Value("object", acc1)
             ELSE TypeError

\* the reduce: a step that throws ends it
RECURSIVE Tally(_, _)
Tally(acc, data) ==
    IF data = <<>> THEN Value("object", acc)
    ELSE LET step == TallyStep(acc, Head(data))
         IN  IF step.type = "TypeError" THEN step ELSE Tally(step.value, Tail(data))

\* the array-index keys of a set, ascending
RECURSIVE Ascending(_)
Ascending(keys) ==
    IF keys = {} THEN <<>>
    ELSE LET least == CHOOSE k \in keys :
                          \A other \in keys : ArrayIndex(k) <= ArrayIndex(other)
         IN  <<least>> \o Ascending(keys \ {least})

\* own property keys: array indices ascending, then strings as created
OwnKeys(obj) ==
    Ascending({k \in DOMAIN obj.entry : IsArrayIndex(k)})
        \o Filter(obj.order, [key \in Range(obj.order) |-> ~IsArrayIndex(key)])

ObjectValues(obj) ==
    LET keys == OwnKeys(obj) IN [i \in 1..Len(keys) |-> obj.entry[keys[i]]]

\* Array.prototype.sort with (a, b) => b.listingsCount - a.listingsCount:
\* stable, descending by listingsCount
RECURSIVE InsertByCount(_, _)
InsertByCount(sorted, e) ==
    IF sorted = <<>> THEN <<e>>
    ELSE IF e.listingsCount - Head(sorted).listingsCount > 0
         THEN <<e>> \o sorted
         ELSE <<Head(sorted)>> \o InsertByCount(Tail(sorted), e)

RECURSIVE SortByCount(_, _)
SortByCount(sorted, array) ==
    IF array = <<>> THEN sorted
    ELSE SortByCount(InsertByCount(sorted, Head(array)), Tail(array))

HostRanking(data) ==
    LET tally == Tally(EmptyObject, data)
    IN  IF tally.type = "TypeError" THEN TypeError
        ELSE Value("ranking", SortByCount(<<>>, ObjectValues(tally.value)))

computeHostRanking ==
    /\ returned' = HostRanking(currentData)
    /\ lastCall' = CallAgain("computeHostRanking")
    /\ UNCHANGED <<listingData, currentData, loaded, passing>>

(***************************************************************************)
(* computeBestValue.  best is Null or a listing of the data.               *)
(***************************************************************************)
\* the comparison as >= : a tie replaces the best so far
Greater_orEqual(a, b) == a.num * b.den >= b.num * a.den

Greater(a, b) == a.num * b.den > b.num * a.den

\* the loop dividing by the price of every record
HasPrice_always(item) == TRUE

\* if (item.price > 0): the division is made inside this test only
HasPrice(item) == item.price > 0

\* the prices the loop divides by, in the order of the records
RECURSIVE Divisors(_)
Divisors(data) ==
    IF data = <<>> THEN <<>>
    ELSE (IF HasPrice(Head(data)) THEN <<Head(data).price>> ELSE <<>>)
             \o Divisors(Tail(data))

RECURSIVE BestValueLoop(_, _, _)
BestValueLoop(best, bestRatio, data) ==
    IF data = <<>> THEN best
    ELSE LET item  == Head(data)
             ratio == Div(item.review_scores_rating, item.price)
         IN  IF HasPrice(item) /\ Greater(ratio, bestRatio)
             THEN BestValueLoop(Value("listing", item), ratio, Tail(data))
             ELSE BestValueLoop(best, bestRatio, Tail(data))

\* bestRatio starting below zero instead of at zero
BestValue_startsBelowZero(data) == BestValueLoop(Null, Num(-1), data)

BestValue(data) == BestValueLoop(Null, Num(0), data)

computeBestValue ==
    /\ returned' = BestValue(currentData)
    /\ lastCall' = CallAgain("computeBestValue")
    /\ UNCHANGED <<listingData, currentData, loaded, passing>>

(***************************************************************************)
(* exportResults(filename, dataToExport = null): the payload is            *)
(* dataToExport || currentData.  The caller passes nothing, or the value   *)
(* the preceding compute call returned.                                    *)
(***************************************************************************)
Payload(dataToExport, data) ==
    IF Truthy(dataToExport) THEN dataToExport ELSE Value("snapshot", data)

Exportable == {"stats", "ranking", "listing", "null"}

(***************************************************************************)
(* JSON.stringify(payload, null, 2).  The text is kept as the document it  *)
(* spells: null, a number, a string, an array of documents, or an object   *)
(* with its members in the order JSON.stringify writes them (the own keys  *)
(* of the value: array indices ascending, then the others as created).     *)
(* A number that is not finite is written as null.                         *)
(***************************************************************************)
JsonNull == [json |-> "null"]

JsonNumber(x) == IF x.den = 0 THEN JsonNull ELSE [json |-> "number", value |-> x]

JsonString(text) == [json |-> "string", value |-> text]

JsonArray(items) == [json |-> "array", items |-> items]

JsonObject(members) == [json |-> "object", members |-> members]

Member(name, value) == [name |-> name, value |-> value]

\* the integers of a set, ascending
RECURSIVE AscendingInts(_)
AscendingInts(ints) ==
    IF ints = {} THEN <<>>
    ELSE LET least == CHOOSE k \in ints : \A other \in ints : k <= other
         IN  <<least>> \o AscendingInts(ints \ {least})

StringifyListing(item) ==
    JsonObject(<<Member("host_id", JsonString(item.host_id)),
                 Member("host_name", JsonString(item.host_name)),
                 Member("price", JsonNumber(Num(item.price))),
                 Member("bedrooms", JsonNumber(Num(item.bedrooms))),
                 Member("review_scores_rating",
                        JsonNumber(Num(item.review_scores_rating)))>>)

StringifyEntry(entry) ==
    JsonObject(<<Member("host_id", JsonString(entry.host_id)),
                 Member("host_name", JsonString(entry.host_name)),
                 Member("listingsCount", JsonNumber(Num(entry.listingsCount)))>>)

StringifyStats(stats) ==
    LET rooms == AscendingInts(DOMAIN stats.avgPriceByBedrooms)
    IN  JsonObject(<<Member("totalListings", JsonNumber(Num(stats.totalListings))),
                     Member("avgPrice", JsonNumber(stats.avgPrice)),
                     Member("avgPriceByBedrooms",
                            JsonObject([i \in 1..Len(rooms) |->
                                Member(ToString(rooms[i]),
                                       JsonNumber(stats.avgPriceByBedrooms[rooms[i]]))]))>>)

Stringify(v) ==
    CASE v.type = "snapshot" ->
             JsonArray([i \in 1..Len(v.value) |-> StringifyListing(v.value[i])])
      [] v.type = "ranking" ->
             JsonArray([i \in 1..Len(v.value) |-> StringifyEntry(v.value[i])])
      [] v.type = "stats"   -> StringifyStats(v.value)
      [] v.type = "listing" -> StringifyListing(v.value)
      [] v.type = "null"    -> JsonNull

\* dataToExport is Undefined when the caller passes one argument only.
\* writeFile is called once: the promise it returns is the outcome of the
\* call, fulfilled when the text is written and rejected when the
\* destination cannot be written (writable = FALSE)
exportResults(dataToExport, writable) ==
    /\ returned' = IF writable
                   THEN Value("written", Stringify(Payload(dataToExport, currentData)))
                   ELSE Value("rejected", <<>>)
    /\ lastCall' = [op |-> "exportResults", min |-> 0, max |-> 0,
                    dataToExport |-> dataToExport, writable |-> writable]
    /\ UNCHANGED <<listingData, currentData, loaded, passing>>

(***************************************************************************)
(* createDataHandler(listingData): currentData = [...listingData].         *)
(***************************************************************************)
createDataHandler(data) ==
    /\ listingData = data
    /\ currentData = data
    /\ lastCall = Call("createDataHandler", 0, 0)
    /\ returned = This
    /\ loaded = data
    /\ passing = Range(data)

\* the handler used as a module: the file is read, cli.js does not run
NotRunning == [pc |-> "none", out |-> "", min |-> ""]

Init ==
    /\ \E data \in SeqsUpTo(Listings, MaxLen) : createDataHandler(data)
    /\ csv = <<>>
    /\ writing = <<>>
    /\ cli = NotRunning

InitHosts ==
    /\ \E data \in SeqsUpTo(HostListings, MaxLen) : createDataHandler(data)
    /\ csv = <<>>
    /\ writing = <<>>
    /\ cli = NotRunning

\* calls made on the handler by a program that imports it
Next ==
    \/ /\ \E minPrice, maxPrice \in 0..MaxPrice : filterByPrice(minPrice, maxPrice)
       /\ UNCHANGED <<csv, writing, cli>>
    \/ /\ \E minRooms, maxRooms \in 0..MaxRooms : filterByBedrooms(minRooms, maxRooms)
       /\ UNCHANGED <<csv, writing, cli>>
    \/ /\ \E minScore, maxScore \in 0..MaxScore : filterByReviewScore(minScore, maxScore)
       /\ UNCHANGED <<csv, writing, cli>>
    \/ reset /\ UNCHANGED <<csv, writing, cli>>
    \/ computeStats /\ UNCHANGED <<csv, writing, cli>>
    \/ computeHostRanking /\ UNCHANGED <<csv, writing, cli>>
    \/ computeBestValue /\ UNCHANGED <<csv, writing, cli>>
    \/ /\ \E dataToExport \in {Undefined} \cup {v \in {returned} : v.type \in Exportable} :
              \E writable \in BOOLEAN : exportResults(dataToExport, writable)
       /\ UNCHANGED <<csv, writing, cli>>

Spec == Init /\ [][Next]_vars

(***************************************************************************)
(* loadCSV.  A row is what csv-parse makes of a line: every column is a     *)
(* text, here a sequence of characters, and a column the file does not     *)
(* have is undefined.                                                      *)
(***************************************************************************)
Characters == {"$", ",", "1", "x"}

Digit(c) == CASE c = "1" -> 1

IsDigit(c) == c \in {"1"}

PriceColumns ==
    {Undefined} \cup {Value("string", text) : text \in SeqsUpTo(Characters, MaxText)}

Rows ==
    [price : PriceColumns, bedrooms : {<<"1">>}, review_scores_rating : {<<"1">>},
     host_id : {"A"}, host_name : {"Ann"}]

\* String.prototype.replace(c, "") with a string as the pattern: the first
\* occurrence only
RECURSIVE ReplaceFirst(_, _)
ReplaceFirst(text, c) ==
    IF text = <<>> THEN <<>>
    ELSE IF Head(text) = c THEN Tail(text)
         ELSE <<Head(text)>> \o ReplaceFirst(Tail(text), c)

\* the number the digits at the head of a text spell, after the digits
\* read so far; -1 while no digit is read
RECURSIVE LeadingDigits(_, _)
LeadingDigits(read, text) ==
    IF text = <<>> \/ ~IsDigit(Head(text)) THEN read
    ELSE LeadingDigits((IF read < 0 THEN 0 ELSE 10 * read) + Digit(Head(text)),
                       Tail(text))

\* parseFloat of a text, as a fraction: the longest numeric prefix, NaN
\* (0/0) when the text does not begin with a number
ParseFloatText(text) ==
    LET read == LeadingDigits(-1, text)
    IN  IF read < 0 THEN Div(0, 0) ELSE Num(read)

\* x || 0 on the result of a conversion: 0 for NaN and for 0
NumberOrZero(x) == IF x.den = 0 \/ x.num = 0 THEN 0 ELSE x.num

\* Number(undefined) is NaN
DecodePrice(price) ==
    IF price.type = "string"
    THEN NumberOrZero(ParseFloatText(ReplaceFirst(ReplaceFirst(price.value, "$"), ",")))
    ELSE NumberOrZero(Div(0, 0))

loadCSV(records) ==
    [i \in 1..Len(records) |->
        [records[i] EXCEPT
            !.price = DecodePrice(@),
            !.bedrooms = NumberOrZero(ParseFloatText(@)),
            !.review_scores_rating = NumberOrZero(ParseFloatText(@))]]

(***************************************************************************)
(* cli.js.  The session waits at one question at a time: the command       *)
(* (pc = "menu"), one of the six bounds of the filter command, or the      *)
(* output filename.  Every action is what runs between one answer and the  *)
(* next question.                                                          *)
(***************************************************************************)
handlerVars == <<listingData, currentData, lastCall, returned, loaded, passing>>

\* the number handleFilter passes for a blank maximum; it is above every
\* number of a listing
Infinity == 1000000

Commands == {"filter", "stats", "ranking", "bestvalue", "export", "reset",
             "quit", "help"}

\* what is typed at a bound's question, trimmed: nothing, or a number
Answers == {"", "0", "1", "2"}

FileNames == {"", "results.json"}

ParseFloat(text) ==
    CASE text = "0" -> 0
      [] text = "1" -> 1
      [] text = "2" -> 2

\* a blank answer taken as 0 on either side
BoundOr_zero(text, none) == IF text = "" THEN 0 ELSE ParseFloat(text)

\* min ? parseFloat(min) : 0 and max ? parseFloat(max) : Infinity
BoundOr(text, none) == IF text = "" THEN none ELSE ParseFloat(text)

Waiting(pc, out, min) == [pc |-> pc, out |-> out, min |-> min]

handleStats ==
    /\ computeStats
    /\ cli' = Waiting("menu", "== Statistics ==", "")

handleRanking ==
    /\ computeHostRanking
    /\ cli' = Waiting("menu", "== Host Ranking (Top 10) ==", "")

handleBestValue ==
    /\ computeBestValue
    /\ cli' = Waiting("menu",
                      IF Truthy(returned')
                      THEN "== Best Value Listing =="
                      ELSE "No valid best-value listing found (maybe all have price=0?).",
                      "")

mainMenu(command) ==
    /\ cli.pc = "menu"
    /\ UNCHANGED <<csv, writing>>
    /\ \/ /\ command = "filter"
          /\ cli' = Waiting("minPrice", "", "")
          /\ UNCHANGED handlerVars
       \/ command = "stats" /\ handleStats
       \/ command = "ranking" /\ handleRanking
       \/ command = "bestvalue" /\ handleBestValue
       \/ /\ command = "export"
          /\ cli' = Waiting("fileName", "", "")
          /\ UNCHANGED handlerVars
       \/ /\ command = "reset"
          /\ reset
          /\ cli' = Waiting("menu", "Data reset to original unfiltered state.", "")
       \/ /\ command = "quit"
          /\ cli' = Waiting("closed", "Goodbye!", "")
          /\ UNCHANGED handlerVars
       \/ /\ command \notin {"filter", "stats", "ranking", "bestvalue", "export",
                              "reset", "quit"}
          /\ cli' = Waiting("menu", "Unknown command. Try again.", "")
          /\ UNCHANGED handlerVars

\* the answer to a "Min ..." question is kept for the "Max ..." question
\* that follows it
handleFilterMin(answer) ==
    /\ cli.pc \in {"minPrice", "minRooms", "minScore"}
    /\ cli' = Waiting(CASE cli.pc = "minPrice" -> "maxPrice"
                         [] cli.pc = "minRooms" -> "maxRooms"
                         [] cli.pc = "minScore" -> "maxScore",
                      "", answer)
    /\ UNCHANGED <<handlerVars, csv, writing>>

\* the answer to a "Max ..." question: the filter is applied when one of
\* the two answers is not blank
handleFilterMax(answer) ==
    LET _min == BoundOr(cli.min, 0)
        _max == BoundOr(answer, Infinity)
        given == cli.min # "" \/ answer # ""
    IN  /\ cli.pc \in {"maxPrice", "maxRooms", "maxScore"}
        /\ UNCHANGED <<csv, writing>>
        /\ \/ /\ cli.pc = "maxPrice"
              /\ IF given THEN filterByPrice(_min, _max) ELSE UNCHANGED handlerVars
              /\ cli' = Waiting("minRooms",
                                IF given THEN "Filtered by price" ELSE "", "")
           \/ /\ cli.pc = "maxRooms"
              /\ IF given THEN filterByBedrooms(_min, _max) ELSE UNCHANGED handlerVars
              /\ cli' = Waiting("minScore",
                                IF given THEN "Filtered by bedrooms" ELSE "", "")
           \/ /\ cli.pc = "maxScore"
              /\ IF given THEN filterByReviewScore(_min, _max) ELSE UNCHANGED handlerVars
              /\ cli' = Waiting("menu",
                                IF given THEN "Filtered by review score" ELSE "", "")

\* handleExport calling exportResults without await: the message is printed
\* and the next command asked for while the write goes on
handleExport_noAwait(fileName) ==
    /\ cli.pc = "fileName"
    /\ UNCHANGED <<handlerVars, csv>>
    /\ \/ /\ fileName = ""
          /\ cli' = Waiting("menu", "No filename provided.", "")
          /\ writing' = writing
       \/ /\ fileName # ""
          /\ Len(writing) < 2
          /\ writing' = Append(writing, Stringify(Payload(Undefined, currentData)))
          /\ cli' = Waiting("menu", "Data exported to", "")

\* handleExport from the answer to its question up to its await:
\* exportResults(fileName) makes the text of the current snapshot and hands
\* it to writeFile
handleExport(fileName) ==
    /\ cli.pc = "fileName"
    /\ UNCHANGED <<handlerVars, csv>>
    /\ \/ /\ fileName = ""
          /\ cli' = Waiting("menu", "No filename provided.", "")
          /\ writing' = writing
       \/ /\ fileName # ""
          /\ writing' = Append(writing, Stringify(Payload(Undefined, currentData)))
          /\ cli' = Waiting("writing", "", "")

\* the write settles and a failure is caught: the message is printed anyway
handleExportResumed_caught(writable) ==
    /\ cli.pc = "writing"
    /\ writing # <<>>
    /\ returned' = IF writable THEN Value("written", Head(writing))
                   ELSE Value("rejected", <<>>)
    /\ lastCall' = [op |-> "exportResults", min |-> 0, max |-> 0,
                    dataToExport |-> Undefined, writable |-> writable]
    /\ writing' = Tail(writing)
    /\ UNCHANGED <<listingData, currentData, loaded, passing, csv>>
    /\ cli' = Waiting("menu", "Data exported to", "")

\* the write settles and handleExport goes on after its await.  A rejected
\* exportResults is thrown out of handleExport and mainMenu, which nothing
\* catches: the process ends, or (unhandled rejections only warned about)
\* stays without a question to answer
handleExportResumed(writable) ==
    /\ cli.pc = "writing"
    /\ writing # <<>>
    /\ returned' = IF writable THEN Value("written", Head(writing))
                   ELSE Value("rejected", <<>>)
    /\ lastCall' = [op |-> "exportResults", min |-> 0, max |-> 0,
                    dataToExport |-> Undefined, writable |-> writable]
    /\ writing' = Tail(writing)
    /\ UNCHANGED <<listingData, currentData, loaded, passing, csv>>
    /\ \/ /\ writable
          /\ cli' = Waiting("menu", "Data exported to", "")
       \/ /\ ~writable
          /\ \E pc \in {"exited", "stalled"} : cli' = Waiting(pc, "", "")

\* the session after init() has loaded the file and asked for a command
InitCLI ==
    /\ \E data \in SeqsUpTo(Listings, MaxRows) : createDataHandler(data)
    /\ csv = <<>>
    /\ writing = <<>>
    /\ cli = Waiting("menu", "Loaded data from", "")

NextCLI ==
    \/ \E command \in Commands : mainMenu(command)
    \/ \E answer \in Answers : handleFilterMin(answer)
    \/ \E answer \in Answers : handleFilterMax(answer)
    \/ \E fileName \in FileNames : handleExport(fileName)
    \/ \E writable \in BOOLEAN : handleExportResumed(writable)

SpecCLI == InitCLI /\ [][NextCLI]_vars

\* the session with a user who answers every question and a writeFile that
\* settles every write
SpecCLIFair == InitCLI /\ [][NextCLI]_vars /\ WF_vars(NextCLI)

(***************************************************************************)
(* init() of cli.js up to the first question: AirBnBDataHandler(path)      *)
(* loads the file and makes the handler of its listings.                   *)
(***************************************************************************)
\* the file named on the command line cannot be read: readFile rejects
NoFile == <<[error |-> "ENOENT"]>>

AirBnBDataHandler ==
    LET data == loadCSV(csv)
    IN  /\ csv # NoFile
        /\ listingData' = data
        /\ currentData' = data
        /\ lastCall' = Call("createDataHandler", 0, 0)
        /\ returned' = This
        /\ loaded' = data
        /\ passing' = Range(data)
        /\ csv' = <<>>

\* init() that reports a failed load and goes on to the menu
init_menuAnyway ==
    /\ cli.pc = "init"
    /\ writing' = writing
    /\ \/ /\ AirBnBDataHandler
          /\ cli' = Waiting("menu", "Loaded data from", "")
       \/ /\ csv = NoFile
          /\ UNCHANGED <<handlerVars, csv>>
          /\ cli' = Waiting("menu", "Error loading CSV", "")

\* init(): the rejection of AirBnBDataHandler is caught, the error printed
\* and the process ended by process.exit(1)
init ==
    /\ cli.pc = "init"
    /\ writing' = writing
    /\ \/ /\ AirBnBDataHandler
          /\ cli' = Waiting("menu", "Loaded data from", "")
       \/ /\ csv = NoFile
          /\ UNCHANGED <<handlerVars, csv>>
          /\ cli' = Waiting("exited", "Error loading CSV", "")

\* cli.js started on a file of at most one row, or on one that cannot be
\* read: let handler is not set yet
InitLoad ==
    /\ listingData = <<>>
    /\ currentData = <<>>
    /\ lastCall = Call("init", 0, 0)
    /\ returned = Undefined
    /\ loaded = <<>>
    /\ passing = {}
    /\ csv \in SeqsUpTo(Rows, 1) \cup {NoFile}
    /\ writing = <<>>
    /\ cli = Waiting("init", "", "")

NextLoad == init \/ NextCLI

SpecLoad == InitLoad /\ [][NextLoad]_vars

SpecHosts == InitHosts /\ [][Next]_vars

(***************************************************************************)
(* Properties.                                                             *)
(***************************************************************************)
FilterOps == {"filterByPrice", "filterByBedrooms", "filterByReviewScore"}

Count(s, r) == Cardinality({i \in 1..Len(s) : s[i] = r})

\* sub picks elements of s at strictly increasing positions
IsSubsequence(sub, s) ==
    \E at \in [1..Len(sub) -> 1..Len(s)] :
        /\ \A i, j \in 1..Len(sub) : i < j => at[i] < at[j]
        /\ \A i \in 1..Len(sub) : sub[i] = s[at[i]]

\* after holds exactly the elements of before that are in accepted, in order
KeptExactly(before, after, accepted) ==
    /\ \A i \in 1..Len(after) : after[i] \in accepted
    /\ \A r \in Range(before) \cup Range(after) :
           Count(after, r) = IF r \in accepted THEN Count(before, r) ELSE 0
    /\ IsSubsequence(after, before)

\* C1: after filterByPrice(min, max) the new current snapshot holds exactly
\* the records of the previous one with min <= price <= max, both bounds
\* inclusive, in their previous order; filterByBedrooms and
\* filterByReviewScore do the same over bedrooms and review score.
C1_FilterContract ==
    [][LET call == lastCall'
           all  == Range(currentData) \cup Range(currentData')
           priceIn == {r \in all : call.min <= r.price /\ r.price <= call.max}
           roomsIn == {r \in all : call.min <= r.bedrooms /\ r.bedrooms <= call.max}
           scoreIn == {r \in all : call.min <= r.review_scores_rating
                                      /\ r.review_scores_rating <= call.max}
       IN  /\ call.op = "filterByPrice"
                => KeptExactly(currentData, currentData', priceIn)
           /\ call.op = "filterByBedrooms"
                => KeptExactly(currentData, currentData', roomsIn)
           /\ call.op = "filterByReviewScore"
                => KeptExactly(currentData, currentData', scoreIn)]_vars

\* a price filter with min < max that kept a record at each bound and
\* removed another
C1_Witness ==
    /\ lastCall.op = "filterByPrice"
    /\ lastCall.min < lastCall.max
    /\ \E r \in Range(currentData) : r.price = lastCall.min
    /\ \E r \in Range(currentData) : r.price = lastCall.max
    /\ \E r \in Range(listingData) : r.price < lastCall.min

\* C2: whatever filters and computations came before, reset() leaves the
\* current snapshot equal, element for element and in order, to the
\* snapshot loaded at construction.
C2_ResetRestores ==
    [][lastCall'.op = "reset" => currentData' = loaded]_vars

\* a reset of a handler that holds a full-length snapshot of distinct records
C2_Witness ==
    /\ lastCall.op = "reset"
    /\ Len(currentData) = MaxLen
    /\ \E r, q \in Range(currentData) : r # q

\* C3: no operation of the pipeline changes the original snapshot: it is
\* always the array that was loaded, same length, order and fields.
C3_OriginalUntouched == listingData = loaded

\* a filter has removed records from the working copy
C3_Witness ==
    /\ lastCall.op \in FilterOps
    /\ listingData # <<>>
    /\ Len(currentData) < Len(listingData)

\* C4: in every reachable state the current snapshot is a subsequence of
\* the original: its records occur in the original, in the same order.
C4_CurrentIsSubsequence == IsSubsequence(currentData, listingData)

\* two records kept from around a removed one, after a bedrooms filter
C4_Witness ==
    /\ lastCall.op = "filterByBedrooms"
    /\ Len(listingData) = 3
    /\ Len(currentData) = 2
    /\ currentData[1] # currentData[2]
    /\ currentData[1] = listingData[1]
    /\ currentData[2] = listingData[3]

\* C5: from the same current snapshot any two of the three filters give
\* the same snapshot in either order, for all bounds.
C5_FiltersCommute ==
    /\ \A a, b \in 0..MaxPrice, c, d \in 0..MaxRooms :
           ByBedrooms(ByPrice(currentData, a, b), c, d)
               = ByPrice(ByBedrooms(currentData, c, d), a, b)
    /\ \A a, b \in 0..MaxPrice, c, d \in 0..MaxScore :
           ByReviewScore(ByPrice(currentData, a, b), c, d)
               = ByPrice(ByReviewScore(currentData, c, d), a, b)
    /\ \A a, b \in 0..MaxRooms, c, d \in 0..MaxScore :
           ByReviewScore(ByBedrooms(currentData, a, b), c, d)
               = ByBedrooms(ByReviewScore(currentData, c, d), a, b)

\* a price range and then a bedrooms range have been applied to the loaded
\* snapshot; each alone removes a different record, together they keep a
\* third, and the snapshot reached is the one the other order gives
C5_Witness ==
    /\ lastCall.op = "filterByBedrooms"
    /\ currentData # <<>>
    /\ \E a, b \in 0..MaxPrice :
           LET p == ByPrice(listingData, a, b)
               r == ByBedrooms(listingData, lastCall.min, lastCall.max)
           IN  /\ p # listingData /\ r # listingData /\ p # r
               /\ currentData # p /\ currentData # r
               /\ passing = {x \in Range(listingData) :
                                /\ a <= x.price /\ x.price <= b
                                /\ lastCall.min <= x.bedrooms
                                /\ x.bedrooms <= lastCall.max}
               /\ currentData = ByPrice(r, a, b)

\* C6: each filter applies to the preceding current snapshot: after the
\* filters called since construction or the last reset, the current
\* snapshot holds exactly the records that satisfy every range applied, so
\* a record an earlier filter removed is not brought back.
C6_FiltersIntersect ==
    KeptExactly(listingData, currentData, passing)

\* the last filter alone would admit a record that an earlier filter removed
C6_Witness ==
    /\ lastCall.op = "filterByBedrooms"
    /\ currentData # <<>>
    /\ \E r \in Range(listingData) :
           /\ r \notin passing
           /\ lastCall.min <= r.bedrooms /\ r.bedrooms <= lastCall.max
    /\ \E r \in Range(listingData) :
           /\ r \notin passing
           /\ ~(lastCall.min <= r.bedrooms /\ r.bedrooms <= lastCall.max)

\* C7: computeStats() on an empty current snapshot returns count 0, average
\* price 0 and an empty per-bedroom mapping, with no division by zero.
C7_StatsOfEmpty ==
    (lastCall.op = "computeStats" /\ currentData = <<>>)
        => /\ returned.value.totalListings = 0
           /\ returned.value.avgPrice = [num |-> 0, den |-> 1]
           /\ DOMAIN returned.value.avgPriceByBedrooms = {}

\* computeStats on a snapshot that filters have emptied
C7_Witness ==
    /\ lastCall.op = "computeStats"
    /\ currentData = <<>>
    /\ listingData # <<>>

RECURSIVE PriceSum(_, _)
PriceSum(data, at) ==
    IF at = {} THEN 0
    ELSE LET i == CHOOSE i \in at : TRUE
         IN  data[i].price + PriceSum(data, at \ {i})

\* q is sum / n
IsMean(q, sum, n) == q.den > 0 /\ q.num * n = sum * q.den

\* C8: on a non-empty current snapshot computeStats() returns the number
\* of records, the sum of their prices divided by that number, and a
\* mapping with exactly one key per bedroom count present, mapped to the
\* mean price of the records with that bedroom count.
C8_StatsOfNonEmpty ==
    (lastCall.op = "computeStats" /\ currentData # <<>>)
        => LET st      == returned.value
               n       == Len(currentData)
               with(k) == {i \in 1..n : currentData[i].bedrooms = k}
           IN  /\ st.totalListings = n
               /\ IsMean(st.avgPrice, PriceSum(currentData, 1..n), n)
               /\ DOMAIN st.avgPriceByBedrooms
                      = {currentData[i].bedrooms : i \in 1..n}
               /\ \A k \in DOMAIN st.avgPriceByBedrooms :
                      IsMean(st.avgPriceByBedrooms[k],
                             PriceSum(currentData, with(k)),
                             Cardinality(with(k)))

\* statistics over two bedroom groups, one of them with a fractional mean
C8_Witness ==
    /\ lastCall.op = "computeStats"
    /\ Cardinality(DOMAIN returned.value.avgPriceByBedrooms) = 2
    /\ \E k \in DOMAIN returned.value.avgPriceByBedrooms :
           returned.value.avgPriceByBedrooms[k].den = 2
    /\ returned.value.avgPrice.den = 3

\* position of the first record of host h in the current snapshot
FirstSeen(h) ==
    CHOOSE i \in 1..Len(currentData) :
        /\ currentData[i].host_id = h
        /\ \A j \in 1..(i - 1) : currentData[j].host_id # h

\* C9: computeHostRanking() returns its entries by descending listing
\* count, and hosts with equal counts in the order in which they were
\* first encountered in the current snapshot, whatever the host
\* identifiers look like.
C9_RankingOrder ==
    lastCall.op = "computeHostRanking"
        => LET rk == returned.value
           IN  \A i, j \in 1..Len(rk) :
                   i < j => /\ rk[i].listingsCount >= rk[j].listingsCount
                            /\ rk[i].listingsCount = rk[j].listingsCount
                                 => FirstSeen(rk[i].host_id) < FirstSeen(rk[j].host_id)

\* C10: computeHostRanking() returns exactly one entry for each distinct
\* non-empty host identifier of the current snapshot, with the number of
\* current records of that host as its count; records without a host
\* identifier add to no entry, so the counts sum to the number of records
\* that have one.
C10_RankingEntries ==
    lastCall.op = "computeHostRanking"
        => LET rk     == returned.value
               n      == Len(currentData)
               of(h)  == {i \in 1..n : currentData[i].host_id = h}
               hosts  == {currentData[i].host_id : i \in 1..n} \ {""}
           IN  /\ {rk[i].host_id : i \in 1..Len(rk)} = hosts
               /\ Len(rk) = Cardinality(hosts)
               /\ \A i \in 1..Len(rk) :
                      rk[i].listingsCount = Cardinality(of(rk[i].host_id))
               /\ \A i \in 1..Len(rk) : rk[i].host_id \notin {"", "unknown"}

\* C11: in every entry of the ranking the host display name is the one of
\* the first record of that host in the current snapshot; a later record
\* of the host with another name does not replace it.
C11_FirstHostName ==
    lastCall.op = "computeHostRanking"
        => LET rk == returned.value
           IN  \A i \in 1..Len(rk) :
                   rk[i].host_name = currentData[FirstSeen(rk[i].host_id)].host_name

\* a ranked host whose later record carries a different display name
C11_Witness ==
    /\ lastCall.op = "computeHostRanking"
    /\ \E i \in 1..Len(returned.value) :
           \E j \in 1..Len(currentData) :
               /\ currentData[j].host_id = returned.value[i].host_id
               /\ currentData[j].host_name # returned.value[i].host_name
               /\ j > FirstSeen(returned.value[i].host_id)

\* review score / price of record i is below (or equal to) that of record j
RatioBelow(data, i, j) ==
    data[i].review_scores_rating * data[j].price
        < data[j].review_scores_rating * data[i].price

RatioEqual(data, i, j) ==
    data[i].review_scores_rating * data[j].price
        = data[j].review_scores_rating * data[i].price

\* C12: a record returned by computeBestValue() has the greatest
\* review-score/price ratio among the current records with price > 0, and
\* is the earliest record of the snapshot with that ratio.
C12_BestIsFirstMaximum ==
    (lastCall.op = "computeBestValue" /\ returned.type = "listing")
        => \E i \in 1..Len(currentData) :
               /\ returned.value = currentData[i]
               /\ currentData[i].price > 0
               /\ \A j \in 1..Len(currentData) :
                      currentData[j].price > 0
                          => /\ ~RatioBelow(currentData, i, j)
                             /\ j < i => RatioBelow(currentData, j, i)

\* the best record came after one with a lower positive ratio and before a
\* different record with the same ratio
C12_Witness ==
    /\ lastCall.op = "computeBestValue"
    /\ returned.type = "listing"
    /\ Len(currentData) = 3
    /\ returned.value = currentData[2]
    /\ currentData[1].price > 0 /\ currentData[1].review_scores_rating > 0
    /\ RatioBelow(currentData, 1, 2)
    /\ currentData[3] # currentData[2]
    /\ currentData[3].price > 0
    /\ RatioEqual(currentData, 2, 3)

\* C13: computeBestValue() returns null exactly when the current snapshot
\* is empty, or every record has price <= 0, or no record with price > 0
\* has a ratio above zero; otherwise it returns a record.
C13_NullExactlyWhenNoCandidate ==
    lastCall.op = "computeBestValue"
        => LET n == Len(currentData)
               noCandidate ==
                   \/ n = 0
                   \/ \A i \in 1..n : currentData[i].price <= 0
                   \/ ~ \E i \in 1..n :
                           /\ currentData[i].price > 0
                           /\ currentData[i].review_scores_rating > 0
           IN  /\ returned = Null <=> noCandidate
               /\ returned # Null => returned.type = "listing"

\* null although the snapshot has a record with a price and one with a score
C13_Witness ==
    /\ lastCall.op = "computeBestValue"
    /\ returned = Null
    /\ \E i \in 1..Len(currentData) :
           currentData[i].price > 0 /\ currentData[i].review_scores_rating = 0
    /\ \E i \in 1..Len(currentData) :
           currentData[i].price = 0 /\ currentData[i].review_scores_rating > 0

ComputeOps == {"computeStats", "computeHostRanking", "computeBestValue"}

\* C14: computeStats(), computeHostRanking() and computeBestValue() leave
\* the current snapshot unchanged, and a second call of the same method
\* right after the first returns an equal result.
C14_ComputeIdempotent ==
    [][lastCall'.op \in ComputeOps
           => /\ currentData' = currentData
              /\ lastCall.op = lastCall'.op => returned' = returned]_vars

\* statistics of a filtered, non-empty snapshot, asked for twice in a row
C14_Witness ==
    /\ lastCall.op = "computeStats"
    /\ lastCall.again
    /\ currentData # <<>>
    /\ Len(currentData) < Len(listingData)

\* C15: every filter and reset() returns the handler it was called on, so
\* the next call of a chain works on the same current snapshot as a call
\* made on the handler itself.
C15_ReturnsThis ==
    lastCall.op \in FilterOps \cup {"reset"} => returned = This

\* the second filter of a chain: a bedrooms filter has returned the handler
\* whose snapshot an earlier call had already narrowed
C15_Witness ==
    /\ lastCall.op = "filterByBedrooms"
    /\ returned = This
    /\ currentData # <<>>
    /\ \E i \in 1..Len(listingData) :
           /\ Within(listingData[i].bedrooms, lastCall.min, lastCall.max)
           /\ listingData[i] \notin Range(currentData)

CoreOps == FilterOps \cup ComputeOps

\* C16: the three filters, computeStats(), computeHostRanking() and
\* computeBestValue() raise no error on any snapshot, the empty one
\* included, for any numeric bounds.
C16_CoreOpsTotal ==
    lastCall.op \in CoreOps => returned.type # "TypeError"

\* a ranking made of a snapshot that holds an identifier naming a member of
\* Object.prototype next to an ordinary one
C16_Witness ==
    /\ lastCall.op = "computeHostRanking"
    /\ returned.type = "ranking"
    /\ \E i, j \in 1..Len(currentData) :
           /\ currentData[i].host_id \in ObjectPrototypeKeys
           /\ currentData[j].host_id \notin ObjectPrototypeKeys \cup {""}

\* C17: exportResults(filename, value) writes the JSON text of exactly the
\* value it was passed (a snapshot, a statistics result, a ranking, a
\* best-value result), and of the current snapshot when no value is passed.
C17_ExportsValuePassed ==
    (lastCall.op = "exportResults" /\ lastCall.writable)
        => returned = Value("written",
                            Stringify(IF lastCall.dataToExport = Undefined
                                      THEN Value("snapshot", currentData)
                                      ELSE lastCall.dataToExport))

\* C18: when the destination cannot be written, exportResults hands the
\* failure to its caller as the rejection of the one write, the current and
\* the original snapshot stay as they were, and the command line does not
\* print "Data exported to ..." for that export.
C18_ExportFailureReported ==
    [][(cli.pc = "writing" /\ lastCall'.op = "exportResults" /\ ~lastCall'.writable)
           => /\ returned'.type = "rejected"
              /\ currentData' = currentData
              /\ listingData' = listingData
              /\ cli'.out # "Data exported to"]_vars

\* the export of a filtered, non-empty snapshot to a file that cannot be
\* written has failed
C18_Witness ==
    /\ lastCall.op = "exportResults"
    /\ ~lastCall.writable
    /\ returned.type = "rejected"
    /\ cli.pc \in {"exited", "stalled"}
    /\ currentData # <<>>
    /\ currentData # listingData

\* the field of a record that the question the session waits at is about
Dimension(r) ==
    CASE cli.pc \in {"minPrice", "maxPrice"} -> r.price
      [] cli.pc \in {"minRooms", "maxRooms"} -> r.bedrooms
      [] cli.pc \in {"minScore", "maxScore"} -> r.review_scores_rating

RECURSIVE RemoveEvery(_, _)
RemoveEvery(text, c) ==
    IF text = <<>> THEN <<>>
    ELSE IF Head(text) = c THEN RemoveEvery(Tail(text), c)
         ELSE <<Head(text)>> \o RemoveEvery(Tail(text), c)

\* C20: loadCSV turns a price text into the number that is left when every
\* "$" and every "," is removed from it, whatever their number, and into 0
\* when the price is missing or not a number.
C20_PriceDecoded ==
    [][(cli.pc = "init" /\ csv # NoFile)
           => \A i \in 1..Len(csv) :
                  listingData'[i].price =
                      IF csv[i].price = Undefined THEN 0
                      ELSE NumberOrZero(ParseFloatText(
                               RemoveEvery(RemoveEvery(csv[i].price.value, "$"), ",")))]_vars

\* the last call was a filter with its minimum above its maximum
Inverted == lastCall.op \in FilterOps /\ lastCall.min > lastCall.max

\* C21: a filter called with min > max raises no error and leaves the
\* current snapshot empty; the call after it, if computeStats, returns the
\* zero result, if computeHostRanking an empty ranking, if computeBestValue
\* null, and if reset() brings the original back.
C21_InvertedRange ==
    /\ [](Inverted => returned = This /\ currentData = <<>> /\ listingData = loaded)
    /\ [][Inverted
              => /\ lastCall'.op = "computeStats"
                     => returned' = Value("stats",
                                          [totalListings |-> 0, avgPrice |-> Num(0),
                                           avgPriceByBedrooms |-> <<>>])
                 /\ lastCall'.op = "computeHostRanking"
                     => returned' = Value("ranking", <<>>)
                 /\ lastCall'.op = "computeBestValue" => returned' = Null
                 /\ lastCall'.op = "reset" => currentData' = loaded]_vars

\* a bedrooms filter with min > max on an original in which some record
\* lies between the two bounds
C21_Witness ==
    /\ Inverted
    /\ lastCall.op = "filterByBedrooms"
    /\ currentData = <<>>
    /\ \E i \in 1..Len(listingData) :
           /\ lastCall.max <= listingData[i].bedrooms
           /\ listingData[i].bedrooms <= lastCall.min

\* a question is on the screen
Prompts == {"menu", "minPrice", "maxPrice", "minRooms", "maxRooms", "minScore",
            "maxScore", "fileName"}

\* C22: the command line makes its calls on the handler one at a time: a
\* question is shown only while no export is being written, at most one
\* write is going on, and the command prompt comes back only from the last
\* step of a command (the third dimension of a filter, the settled write of
\* an export).
C22_OneCallAtATime ==
    /\ [](Len(writing) <= 1 /\ (cli.pc \in Prompts => writing = <<>>))
    /\ [][(cli'.pc = "menu" /\ cli.pc # "menu")
              => cli.pc \in {"maxScore", "fileName", "writing"}]_vars

\* the export of a filtered snapshot is being written and no question is
\* shown
C22_Witness ==
    /\ cli.pc = "writing"
    /\ Len(writing) = 1
    /\ lastCall.op \in FilterOps
    /\ currentData # listingData

\* C23: when the file cannot be loaded the command line prints the error
\* and ends (process.exit(1)) from init(): no handler is made, no command
\* is asked for, and no filter, reset, compute or export call is made.
C23_LoadFailureExits ==
    /\ [](csv = NoFile
             => /\ cli.pc \in {"init", "exited"}
                /\ lastCall = Call("init", 0, 0)
                /\ returned = Undefined
                /\ listingData = <<>> /\ currentData = <<>>
                /\ writing = <<>>)
    /\ [][(csv = NoFile /\ cli.pc = "init")
              => cli'.pc = "exited" /\ cli'.out = "Error loading CSV"]_vars

\* the session has ended on a file that cannot be read
C23_Witness ==
    /\ csv = NoFile
    /\ cli.pc = "exited"
    /\ cli.out = "Error loading CSV"

\* a command other than quit has been entered and is not finished
InCommand == cli.pc \in (Prompts \ {"menu"}) \cup {"writing"}

\* C24: after every command other than quit the command prompt is shown
\* again, whatever the outcome of the command; after quit nothing more
\* happens.
C24_PromptReturns ==
    /\ InCommand ~> cli.pc = "menu"
    /\ [][cli.pc # "closed"]_vars

\* C25: between two resets the current snapshot only shrinks: every call
\* other than reset() leaves a subsequence of the snapshot it found, so the
\* length never grows, a removed record never comes back, and an empty
\* snapshot stays empty.
C25_ShrinksUntilReset ==
    [][lastCall'.op # "reset"
           => /\ IsSubsequence(currentData', currentData)
              /\ Len(currentData') <= Len(currentData)
              /\ currentData = <<>> => currentData' = <<>>]_vars

\* a review score filter that admits every score, on a snapshot that
\* earlier filters had emptied
C25_Witness ==
    /\ lastCall.op = "filterByReviewScore"
    /\ lastCall.min = 0 /\ lastCall.max = MaxScore
    /\ currentData = <<>>
    /\ listingData # <<>>

\* C26: a record returned by computeBestValue() is a record of the current
\* snapshot with price > 0 and review score > 0; a record with price <= 0
\* is never returned and its price is never divided by.
C26_BestValueSafe ==
    lastCall.op = "computeBestValue"
        => /\ returned.type = "listing"
               => /\ returned.value \in Range(currentData)
                  /\ returned.value.price > 0
                  /\ returned.value.review_scores_rating > 0
           /\ \A i \in 1..Len(Divisors(currentData)) : Divisors(currentData)[i] > 0

\* a record is returned from a snapshot that also holds a record of price 0
\* and review score above 0
C26_Witness ==
    /\ lastCall.op = "computeBestValue"
    /\ returned.type = "listing"
    /\ \E i \in 1..Len(currentData) :
           /\ currentData[i].price = 0
           /\ currentData[i].review_scores_rating > 0
           /\ currentData[i] # returned.value

=============================================================================
